---- MODULE Spec2Model ----
(***************************************************************************)
(* Model of the similarweb-advanced-scraper pipeline:                      *)
(*   - the retry decorator (utils/retry_handler.py),                       *)
(*   - the three normalizers (extractors/*.py),                            *)
(*   - the pipeline driver main() (main.py).                               *)
(*                                                                         *)
(* Conventions of the model.                                               *)
(*   * A Python string is a sequence of one-character strings, so that     *)
(*     str.strip() and the lexicographic order of str are computed.        *)
(*   * A JSON value that a field may hold is a tagged record [t, v]:       *)
(*       t = "absent"  the key is missing from the mapping                 *)
(*       t = "none"    the key is present with value None/null             *)
(*       t = "num"     a number, v                                         *)
(*       t = "text"    a string that is not the text of a number ("abc")   *)
(*   * Python floats that are fractions (demographic values, growth rate)  *)
(*     are fixed-point integers counted in thousandths; the average of     *)
(*     visits is counted in hundredths; backoff delays in tenths of a      *)
(*     second.  round(x, 3) is computed on the exact quotient with ties to *)
(*     even; the inputs of the model produce no exact tie, which is the    *)
(*     only place where the binary representation of a float could decide  *)
(*     the direction.                                                      *)
(*   * A computation that may raise returns [ok, val]: ok = FALSE stands   *)
(*     for an exception leaving the function.                              *)
(***************************************************************************)
EXTENDS Integers, Sequences, FiniteSets, TLC

VARIABLES
    unit,       \* which part of the program this run executes
    \* ---- retry wrapper (closure parameters and locals of wrapper) ----
    rRetries,   \* retries           (retry_handler.py:11)
    rBackoff,   \* backoff_in_seconds, in tenths of a second (:12)
    wst,        \* position of wrapper: "idle", "calling", "returned", "raised"
    attempt,    \* wrapper local `attempt`
    delay,      \* wrapper local `delay`, tenths of a second
    trace,      \* effects of the current wrapper call: invocations of func and sleeps
    result,     \* value returned by the wrapper
    raisedErr,  \* exception that left the wrapper
    ncalls,     \* number of wrapper calls started so far
    \* ---- pipeline driver main() ----
    mpc,        \* position in main()
    settings,   \* main local `settings`
    domains,    \* main local `domains`
    idx,        \* loop index of `for idx, domain in enumerate(domains, start=1)`
    results,    \* main local `results`
    outcome,    \* per processed domain: "ok", "fetch_failed", "build_failed"
    log,        \* log lines emitted by main()
    written,    \* content of the output file
    \* ---- normalizers under test ----
    npc,        \* "input", "parsed", "reparsed"
    raw,        \* the raw input handed to the normalizer
    out,        \* [ok, val]: result of the normalizer on raw
    out2        \* [ok, val]: result of the normalizer on its own output

vars == <<unit, rRetries, rBackoff, wst, attempt, delay, trace, result, raisedErr,
          ncalls, mpc, settings, domains, idx, results, outcome, log, written,
          npc, raw, out, out2>>

retryVars == <<rRetries, rBackoff, wst, attempt, delay, trace, result, raisedErr, ncalls>>
mainVars == <<mpc, settings, domains, idx, results, outcome, log, written>>
normVars == <<npc, raw, out, out2>>

(***************************************************************************)
(* Bounds of the model.                                                    *)
(***************************************************************************)
MaxRetries == 4        \* retry counts 0..MaxRetries in the stand-alone wrapper runs
MaxBackoff == 6        \* base delays 1..MaxBackoff (tenths of a second)
MaxWrapperCalls == 2   \* calls of one wrapped function in a stand-alone run
MaxLines == 3          \* lines of the domain-list file
MaxFill == 11          \* well-formed competitors appended to a raw list
MaxTail == 2           \* arbitrary competitor entries at the head of a raw list
MaxBuckets == 3        \* age buckets in a raw demographics payload
MaxPoints == 3         \* points in a raw historical list

(***************************************************************************)
(* Python values.                                                          *)
(***************************************************************************)
Absent == [t |-> "absent", v |-> 0]
None == [t |-> "none", v |-> 0]
Num(n) == [t |-> "num", v |-> n]
Text == [t |-> "text", v |-> 0]

\* dict.get(key, default)
Get(field, default) == IF field.t = "absent" THEN default ELSE field

\* truth value of a Python object: None, 0 and 0.0 are falsy; "abc" is truthy
Truthy(x) == CASE x.t = "num" -> x.v # 0
               [] x.t = "text" -> TRUE
               [] OTHER -> FALSE

\* `x or d`
Or(x, d) == IF Truthy(x) THEN x ELSE d

\* int(x) / float(x): ValueError on "abc", TypeError on None
ToNumber(x) == IF x.t = "num" THEN [ok |-> TRUE, val |-> x.v] ELSE [ok |-> FALSE, val |-> 0]

\* code point of the characters the model uses (order of str comparison)
CharOrd(c) == CASE c = " " -> 32 [] c = "-" -> 45 [] c = "." -> 46
                [] c = "0" -> 48 [] c = "1" -> 49 [] c = "2" -> 50 [] c = "3" -> 51
                [] c = "4" -> 52 [] c = "N" -> 78
                [] c = "a" -> 97 [] c = "b" -> 98 [] c = "c" -> 99 [] c = "d" -> 100
                [] c = "e" -> 101 [] c = "f" -> 102 [] c = "g" -> 103 [] c = "h" -> 104
                [] c = "i" -> 105 [] c = "j" -> 106 [] c = "k" -> 107 [] c = "l" -> 108
                [] c = "m" -> 109 [] c = "n" -> 110 [] c = "o" -> 111 [] c = "p" -> 112
                [] c = "z" -> 122

\* s < t for Python strings
RECURSIVE StrLess(_, _)
StrLess(s, t) ==
    IF t = <<>> THEN FALSE
    ELSE IF s = <<>> THEN TRUE
    ELSE IF CharOrd(Head(s)) # CharOrd(Head(t)) THEN CharOrd(Head(s)) < CharOrd(Head(t))
    ELSE StrLess(Tail(s), Tail(t))

RECURSIVE LStrip(_)
LStrip(s) == IF s # <<>> /\ Head(s) = " " THEN LStrip(Tail(s)) ELSE s

RECURSIVE RStrip(_)
RStrip(s) == IF s # <<>> /\ s[Len(s)] = " " THEN RStrip(SubSeq(s, 1, Len(s) - 1)) ELSE s

\* str.strip()
Strip(s) == RStrip(LStrip(s))

\* a domain field: [t |-> "absent" | "none" | "str", s |-> characters]
DomAbsent == [t |-> "absent", s |-> <<>>]
DomNone == [t |-> "none", s |-> <<>>]
Str(chars) == [t |-> "str", s |-> chars]

\* str(x) of a domain field value (str(None) is "None")
StrOf(d) == IF d.t = "none" THEN <<"N", "o", "n", "e">> ELSE d.s

\* round(n / d, k) with 10^k = scale, d > 0: nearest multiple, ties to even
RoundHalfEven(n, d) ==
    LET q == n \div d
        r == n % d
    IN  IF 2 * r < d THEN q
        ELSE IF 2 * r > d THEN q + 1
        ELSE IF q % 2 = 0 THEN q ELSE q + 1

\* round(x, 3) of the fraction x = <<num, den>>, in thousandths
Round3(x) == RoundHalfEven(1000 * x[1], x[2])

\* round(x, 2) of the fraction x = <<num, den>>, in hundredths
Round2(x) == RoundHalfEven(100 * x[1], x[2])

RECURSIVE SumSeq(_)
SumSeq(s) == IF s = <<>> THEN 0 ELSE Head(s) + SumSeq(Tail(s))

\* all sequences over S of length at most n
SeqsUpTo(S, n) == UNION {[1..k -> S] : k \in 0..n}

(***************************************************************************)
(* Competitors normalizer: extractors/competitors_parser.py                *)
(***************************************************************************)
TopN == 10

\* a JSON list value: [t |-> "absent" | "none" | "list" | "other", items |-> sequence]
List(items) == [t |-> "list", items |-> items]
NoList(tag) == [t |-> tag, items |-> <<>>]

\* `x or []`
ListOrEmpty(x) == IF x.t = "list" THEN x.items ELSE <<>>

\* one element of topSimilarityCompetitors; isMap = FALSE is an element that is
\* not a mapping (a string, a number, null)
Competitor(d, visits, sim) ==
    [isMap |-> TRUE, domain |-> d, visitsTotalCount |-> visits, similarityScore |-> sim]
NotACompetitor ==
    [isMap |-> FALSE, domain |-> DomAbsent, visitsTotalCount |-> Absent,
     similarityScore |-> Absent]

\* the body of `for comp in competitors_list`: ok = FALSE when it raises,
\* keep = FALSE when it reaches `continue`, else val is the cleaned entry
CleanCompetitor(comp) ==
    IF ~comp.isMap
    THEN [ok |-> FALSE, keep |-> FALSE, val |-> comp]    \* comp.get: AttributeError
    ELSE LET domain == Strip(StrOf(Get(comp.domain, Str(<<>>))))
             visits == Or(Get(comp.visitsTotalCount, Num(0)), Num(0))
             got == Get(comp.similarityScore, None)
             similarity == IF got.t = "none" THEN Num(0) ELSE got
             iv == ToNumber(visits)
             fs == ToNumber(similarity)
         IN  IF domain = <<>>
             THEN [ok |-> TRUE, keep |-> FALSE, val |-> comp]
             ELSE IF ~iv.ok \/ ~fs.ok
             THEN [ok |-> FALSE, keep |-> FALSE, val |-> comp]
             ELSE [ok |-> TRUE, keep |-> TRUE,
                   val |-> Competitor(Str(domain), Num(iv.val), Num(fs.val))]

\* the whole loop: [ok, val] with val the list `cleaned`
RECURSIVE CleanCompetitors(_, _)
CleanCompetitors(list, cleaned) ==
    IF list = <<>> THEN [ok |-> TRUE, val |-> cleaned]
    ELSE LET c == CleanCompetitor(Head(list))
         IN  IF ~c.ok THEN [ok |-> FALSE, val |-> cleaned]
             ELSE CleanCompetitors(Tail(list),
                                   IF c.keep THEN Append(cleaned, c.val) ELSE cleaned)

\* mutant of CompetitorKeyLess: visits is the primary key
CompetitorKeyLessVisitsFirst(a, b) ==
    \/ a.visitsTotalCount.v < b.visitsTotalCount.v
    \/ /\ a.visitsTotalCount.v = b.visitsTotalCount.v
       /\ a.similarityScore.v < b.similarityScore.v

\* key(a) < key(b) for the sort key (similarityScore, visitsTotalCount)
CompetitorKeyLess(a, b) ==
    \/ a.similarityScore.v < b.similarityScore.v
    \/ /\ a.similarityScore.v = b.similarityScore.v
       /\ a.visitsTotalCount.v < b.visitsTotalCount.v

\* list.sort(key=..., reverse=True): descending, equal keys keep their order
RECURSIVE InsertCompetitor(_, _)
InsertCompetitor(sorted, x) ==
    IF sorted = <<>> THEN <<x>>
    ELSE IF CompetitorKeyLess(Head(sorted), x) THEN <<x>> \o sorted
    ELSE <<Head(sorted)>> \o InsertCompetitor(Tail(sorted), x)

RECURSIVE SortCompetitors(_, _)
SortCompetitors(list, sorted) ==
    IF list = <<>> THEN sorted
    ELSE SortCompetitors(Tail(list), InsertCompetitor(sorted, Head(list)))

\* mutant of TopCompetitors: the counted list is the truncated one
TopCompetitorsUncut(cleaned) == cleaned

\* cleaned[:10]
TopCompetitors(cleaned) ==
    SubSeq(cleaned, 1, IF Len(cleaned) < TopN THEN Len(cleaned) ELSE TopN)

parse_competitors(raw_competitors) ==
    LET competitors_list == ListOrEmpty(raw_competitors.topSimilarityCompetitors)
        c == CleanCompetitors(competitors_list, <<>>)
        cleaned == SortCompetitors(c.val, <<>>)
    IN  IF ~c.ok THEN [ok |-> FALSE, val |-> raw_competitors]
        ELSE [ok |-> TRUE,
              val |-> [topSimilarityCompetitors |-> List(TopCompetitors(cleaned)),
                       competitorsCount |-> Len(cleaned)]]

(***************************************************************************)
(* Demographics normalizer: extractors/demographics_parser.py              *)
(***************************************************************************)
\* values are numbers in thousandths; the result is a list of fractions <<num, den>>
_normalize(values) ==
    LET total == SumSeq(values)
    IN  IF total <= 0
        THEN [i \in 1..Len(values) |-> <<1, Len(values)>>]
        ELSE [i \in 1..Len(values) |-> <<values[i], total>>]

\* one element of ageDistribution
Bucket(mn, mx, value) == [isMap |-> TRUE, minAge |-> mn, maxAge |-> mx, value |-> value]
NotABucket == [isMap |-> FALSE, minAge |-> Absent, maxAge |-> Absent, value |-> Absent]

\* the try block of `for item in age_distribution_raw`: ok = FALSE is `continue`
CleanBucket(item) ==
    LET min_age == ToNumber(Get(item.minAge, None))
        max_age == ToNumber(Get(item.maxAge, None))
        value == ToNumber(Or(Get(item.value, Num(0)), Num(0)))
    IN  IF item.isMap /\ min_age.ok /\ max_age.ok /\ value.ok
        THEN [ok |-> TRUE, val |-> Bucket(Num(min_age.val), Num(max_age.val), Num(value.val))]
        ELSE [ok |-> FALSE, val |-> item]

RECURSIVE CleanBuckets(_)
CleanBuckets(list) ==
    IF list = <<>> THEN <<>>
    ELSE LET b == CleanBucket(Head(list))
         IN  (IF b.ok THEN <<b.val>> ELSE <<>>) \o CleanBuckets(Tail(list))

\* ages.sort(key=minAge): ascending, equal keys keep their order
RECURSIVE InsertBucket(_, _)
InsertBucket(sorted, x) ==
    IF sorted = <<>> THEN <<x>>
    ELSE IF x.minAge.v < Head(sorted).minAge.v THEN <<x>> \o sorted
    ELSE <<Head(sorted)>> \o InsertBucket(Tail(sorted), x)

RECURSIVE SortBuckets(_, _)
SortBuckets(list, sorted) ==
    IF list = <<>> THEN sorted
    ELSE SortBuckets(Tail(list), InsertBucket(sorted, Head(list)))

\* a genderDistribution value: t = "none" (absent, null or {}), "map", or "other"
\* (a truthy value that is not a mapping)
Gender(m, f) == [t |-> "map", male |-> m, female |-> f]
NoGender(tag) == [t |-> tag, male |-> Absent, female |-> Absent]

\* the try block reading male and female: any failure zeroes both
GenderValues(g) ==
    LET male == ToNumber(Or(Get(g.male, Num(0)), Num(0)))
        female == ToNumber(Or(Get(g.female, Num(0)), Num(0)))
    IN  IF g.t # "other" /\ male.ok /\ female.ok
        THEN <<male.val, female.val>>
        ELSE <<0, 0>>

\* male, female as fractions before rounding
GenderFractions(mf) ==
    IF mf[1] <= 0 /\ mf[2] <= 0
    THEN <<(<<1, 2>>), (<<1, 2>>)>>
    ELSE _normalize(mf)

parse_demographics(raw_demographics) ==
    LET age_distribution_raw == ListOrEmpty(raw_demographics.ageDistribution)
        ages == SortBuckets(CleanBuckets(age_distribution_raw), <<>>)
        values == [i \in 1..Len(ages) |-> ages[i].value.v]
        normalized == _normalize(values)
        mf == GenderFractions(GenderValues(raw_demographics.genderDistribution))
    IN  [ok |-> TRUE,
         val |-> [ageDistribution |->
                      List([i \in 1..Len(ages) |->
                               Bucket(ages[i].minAge, ages[i].maxAge,
                                      Num(Round3(normalized[i])))]),
                  genderDistribution |->
                      Gender(Num(Round3(mf[1])), Num(Round3(mf[2])))]]

(***************************************************************************)
(* Traffic normalizer: extractors/traffic_parser.py                        *)
(***************************************************************************)
\* one element of historical; date is [t |-> "absent" | "none" | "str", s]
Point(date, visits) == [date |-> date, visits |-> visits]

\* the sort key x.get("date", "")
DateKey(x) == Get(x.date, Str(<<>>))

\* sorted() compares keys as soon as there are two of them; a None key raises TypeError
SortRaises(historical) ==
    /\ Len(historical) >= 2
    /\ \E i \in 1..Len(historical) : DateKey(historical[i]).t = "none"

\* sorted(historical, key=date): ascending, equal keys keep their order
RECURSIVE InsertPoint(_, _)
InsertPoint(sorted, x) ==
    IF sorted = <<>> THEN <<x>>
    ELSE IF StrLess(DateKey(x).s, DateKey(Head(sorted)).s) THEN <<x>> \o sorted
    ELSE <<Head(sorted)>> \o InsertPoint(Tail(sorted), x)

RECURSIVE SortPoints(_, _)
SortPoints(list, sorted) ==
    IF list = <<>> THEN sorted
    ELSE SortPoints(Tail(list), InsertPoint(sorted, Head(list)))

\* mutant of _ensure_sorted_historical: the input order is kept
KeepInputOrder(historical) == historical

_ensure_sorted_historical(historical) ==
    IF SortRaises(historical) THEN historical ELSE SortPoints(historical, <<>>)

\* float(item.get("visits", 0) or 0) / int(item.get("visits", 0) or 0)
Visits(item) == ToNumber(Or(Get(item.visits, Num(0)), Num(0)))

\* [ok, val], val in thousandths
_compute_growth(historical) ==
    IF Len(historical) < 2 THEN [ok |-> TRUE, val |-> 0]
    ELSE LET first == Visits(historical[1])
             last == Visits(historical[Len(historical)])
         IN  IF ~first.ok \/ ~last.ok THEN [ok |-> FALSE, val |-> 0]
             ELSE IF first.val <= 0 THEN [ok |-> TRUE, val |-> 0]
             ELSE [ok |-> TRUE, val |-> Round3(<<last.val - first.val, first.val>>)]

\* [ok, val] of sum(f(item) for item in historical)
SumVisits(historical) ==
    [ok |-> \A i \in 1..Len(historical) : Visits(historical[i]).ok,
     val |-> SumSeq([i \in 1..Len(historical) |-> Visits(historical[i]).val])]

\* [ok, val], val in hundredths
_compute_average_visits(historical) ==
    IF historical = <<>> THEN [ok |-> TRUE, val |-> 0]
    ELSE LET total == SumVisits(historical)
         IN  [ok |-> total.ok, val |-> Round2(<<total.val, Len(historical)>>)]

\* a trafficSources / ranking value: t = "none" or "map" with n keys
NoMap == [t |-> "none", n |-> 0]
Map(n) == [t |-> "map", n |-> n]

\* `x or {}`
MapOrEmpty(x) == IF x.t = "map" /\ x.n > 0 THEN x ELSE Map(0)

parse_traffic(traffic, traffic_sources, ranking) ==
    LET historical == ListOrEmpty(traffic.historical)
        historical_sorted == _ensure_sorted_historical(historical)
        growth == _compute_growth(historical_sorted)
        avg_visits == _compute_average_visits(historical_sorted)
        got == Get(traffic.visitsTotalCount, None)
        total == SumVisits(historical_sorted)
        visits_total_count == IF got.t = "none" THEN Num(total.val) ELSE got
    IN  IF ~growth.ok \/ ~avg_visits.ok \/ (got.t = "none" /\ ~total.ok)
        THEN [ok |-> FALSE, val |-> traffic]
        ELSE [ok |-> TRUE,
              val |-> [traffic |-> [historical |-> List(historical_sorted),
                                    visitsTotalCount |-> visits_total_count,
                                    averageMonthlyVisits |-> Num(avg_visits.val),
                                    visitsGrowthRate |-> Num(growth.val)],
                       trafficSources |-> MapOrEmpty(traffic_sources),
                       ranking |-> MapOrEmpty(ranking)]]

(***************************************************************************)
(* Retry decorator: utils/retry_handler.py                                 *)
(*                                                                         *)
(* trace records the effects of one wrapper call in order: every           *)
(* invocation of func (ok says whether it returned) and every time.sleep   *)
(* with its delay.  One action is one pass through the body of             *)
(* `while True`.  Failures of func are instances of Exception, which the   *)
(* default exception tuple matches.                                        *)
(***************************************************************************)
RetryDefaultRetries == 3
RetryDefaultBackoff == 10

CallEv(ok) == [ev |-> "call", ok |-> ok, d |-> 0]
SleepEv(d) == [ev |-> "sleep", ok |-> TRUE, d |-> d]

\* number of invocations of func recorded in a trace
Calls(tr) == Cardinality({i \in 1..Len(tr) : tr[i].ev = "call"})

NoResult == [call |-> 0, val |-> 0]
NoError == [call |-> 0]

\* mutant of ExceededRetries: the last retry is never made
ExceededRetriesEarly(a, retries) == a >= retries

\* `if attempt > retries`
ExceededRetries(a, retries) == a > retries

\* mutant of NextDelay: linear backoff
NextDelayLinear(d) == d + 1

\* `delay *= 2`
NextDelay(d) == d * 2

\* entry of wrapper(*args, **kwargs)
WrapperEnter ==
    /\ attempt' = 0
    /\ delay' = rBackoff
    /\ trace' = <<>>
    /\ wst' = "calling"
    /\ ncalls' = ncalls + 1
    /\ result' = NoResult
    /\ raisedErr' = NoError
    /\ UNCHANGED <<rRetries, rBackoff>>

\* `return func(*args, **kwargs)` when func returns v
WrapperReturn(v) ==
    /\ wst = "calling"
    /\ trace' = Append(trace, CallEv(TRUE))
    /\ result' = [call |-> Calls(trace) + 1, val |-> v]
    /\ wst' = "returned"
    /\ UNCHANGED <<rRetries, rBackoff, attempt, delay, raisedErr, ncalls>>

\* the except clause, when func raises: re-raise, or sleep and go round again
WrapperExcept ==
    /\ wst = "calling"
    /\ attempt' = attempt + 1
    /\ IF ExceededRetries(attempt + 1, rRetries)
       THEN /\ trace' = Append(trace, CallEv(FALSE))
            /\ raisedErr' = [call |-> Calls(trace) + 1]
            /\ wst' = "raised"
            /\ delay' = delay
       ELSE /\ trace' = trace \o <<CallEv(FALSE), SleepEv(delay)>>
            /\ delay' = NextDelay(delay)
            /\ UNCHANGED <<raisedErr, wst>>
    /\ UNCHANGED <<rRetries, rBackoff, result, ncalls>>

(***************************************************************************)
(* Pipeline driver: main.py                                                *)
(***************************************************************************)
SettingsMaxRetries == 3
SettingsBackoff == 15

NoSettings == [max_retries |-> 0, retry_backoff_seconds |-> 0]

\* the settings files the runs are given: absent, not JSON, or a JSON object
SettingsFiles ==
    {[state |-> "missing", content |-> NoSettings],
     [state |-> "malformed", content |-> NoSettings],
     [state |-> "ok", content |-> [max_retries |-> 1, retry_backoff_seconds |-> 20]],
     [state |-> "ok", content |-> [max_retries |-> 5, retry_backoff_seconds |-> 5]]}

\* [ok, val, warned]: json.load raises on a file that is not JSON
load_settings(file) ==
    CASE file.state = "missing" ->
            [ok |-> TRUE, warned |-> TRUE,
             val |-> [max_retries |-> SettingsMaxRetries,
                      retry_backoff_seconds |-> SettingsBackoff]]
      [] file.state = "malformed" -> [ok |-> FALSE, warned |-> FALSE, val |-> NoSettings]
      [] OTHER -> [ok |-> TRUE, warned |-> FALSE, val |-> file.content]

\* lines of a line-delimited domain file
LineKinds == {<<"a">>, <<" ", "b">>, <<"c">>, <<" ">>}

\* the input files the runs are given: absent, of an unsupported type, or a text file
InputFiles ==
    {[state |-> "missing", lines |-> <<>>], [state |-> "unsupported", lines |-> <<>>]}
    \cup {[state |-> "ok", lines |-> l] : l \in SeqsUpTo(LineKinds, MaxLines)}

\* sorted(set(domains))
RECURSIVE InsertDomain(_, _)
InsertDomain(sorted, x) ==
    IF sorted = <<>> THEN <<x>>
    ELSE IF x = Head(sorted) THEN sorted
    ELSE IF StrLess(x, Head(sorted)) THEN <<x>> \o sorted
    ELSE <<Head(sorted)>> \o InsertDomain(Tail(sorted), x)

RECURSIVE SortedSet(_, _)
SortedSet(list, sorted) ==
    IF list = <<>> THEN sorted
    ELSE SortedSet(Tail(list), InsertDomain(sorted, Head(list)))

\* [ok, val]: FileNotFoundError, ValueError, or the text branch and the final sort
load_domains(input) ==
    IF input.state # "ok" THEN [ok |-> FALSE, val |-> <<>>]
    ELSE LET stripped == [i \in 1..Len(input.lines) |-> Strip(input.lines[i])]
             NonEmpty(line) == line # <<>>
         IN  [ok |-> TRUE, val |-> SortedSet(SelectSeq(stripped, NonEmpty), <<>>)]

\* the payloads synthetic_data.generate_domain_payload(domain) may return: the keys
\* the driver reads, with a competitor list that is well formed or holds a
\* non-numeric visitsTotalCount
generate_domain_payload(domain) ==
    {[domain |-> Str(domain),
      overview |-> Map(1),
      demographics |-> [ageDistribution |-> List(<<Bucket(Num(18), Num(24), Num(1000))>>),
                        genderDistribution |-> Gender(Num(1000), Num(1000))],
      competitors |-> [topSimilarityCompetitors |->
                          List(<<Competitor(Str(<<"z">>), visits, Num(900))>>)],
      traffic |-> [historical |-> List(<<Point(Str(<<"1">>), Num(100))>>),
                   visitsTotalCount |-> Absent],
      trafficSources |-> NoMap,
      ranking |-> Map(1)] : visits \in {Num(3), Text}}

\* [ok, val]: the record, or an exception of one of the normalizers
build_record(raw_payload) ==
    LET domain == Get(raw_payload.domain, Str(<<"u", "n", "k", "n", "o", "w", "n">>))
        demographics == parse_demographics(raw_payload.demographics)
        competitors == parse_competitors(raw_payload.competitors)
        traffic_summary == parse_traffic(raw_payload.traffic, raw_payload.trafficSources,
                                         raw_payload.ranking)
    IN  IF ~demographics.ok \/ ~competitors.ok \/ ~traffic_summary.ok
        THEN [ok |-> FALSE, val |-> domain]
        ELSE [ok |-> TRUE,
              val |-> [domain |-> domain.s,
                       overview |-> raw_payload.overview,
                       competitors |-> competitors.val,
                       demographics |-> demographics.val,
                       trafficSources |-> traffic_summary.val.trafficSources,
                       ranking |-> traffic_summary.val.ranking,
                       traffic |-> traffic_summary.val.traffic]]

LogLine(level, event, domain) == [level |-> level, event |-> event, domain |-> domain]

NoFile == [exists |-> FALSE, data |-> <<>>]
NoOut == [ok |-> FALSE, val |-> 0]

\* mutant of HandlerNextPc: a failed domain ends the loop
HandlerEndsLoop == "save"

\* where control goes after the except clause of the loop body: the next iteration
HandlerNextPc == "loop"

Init ==
    /\ unit = "main"
    /\ rRetries = RetryDefaultRetries      \* @retry() on fetch_domain_data
    /\ rBackoff = RetryDefaultBackoff
    /\ wst = "idle" /\ attempt = 0 /\ delay = 0 /\ trace = <<>>
    /\ result = NoResult /\ raisedErr = NoError /\ ncalls = 0
    /\ mpc = "load_settings"
    /\ settings = NoSettings
    /\ domains = <<>> /\ idx = 0 /\ results = <<>> /\ outcome = <<>>
    /\ log = <<>> /\ written = NoFile
    /\ npc = "idle" /\ raw = 0 /\ out = NoOut /\ out2 = NoOut

\* settings = load_settings(Path(args.settings))
LoadSettings ==
    /\ mpc = "load_settings"
    /\ \E file \in SettingsFiles :
         LET r == load_settings(file)
         IN  IF r.ok
             THEN /\ settings' = r.val
                  /\ log' = IF r.warned
                            THEN Append(log, LogLine("warning", "settings_not_found", <<>>))
                            ELSE log
                  /\ mpc' = "load_domains"
             ELSE /\ mpc' = "raised"
                  /\ UNCHANGED <<settings, log>>
    /\ UNCHANGED <<domains, idx, results, outcome, written>>
    /\ UNCHANGED <<unit, retryVars, normVars>>

\* the try block around load_domains(input_file)
LoadDomains ==
    /\ mpc = "load_domains"
    /\ \E file \in InputFiles :
         LET r == load_domains(file)
         IN  IF r.ok
             THEN /\ domains' = r.val
                  /\ log' = Append(log, LogLine("info", "loaded", <<>>))
                  /\ mpc' = "loop"
             ELSE /\ log' = Append(log, LogLine("error", "load_domains_failed", <<>>))
                  /\ mpc' = "exit1"
                  /\ UNCHANGED domains
    /\ UNCHANGED <<settings, idx, results, outcome, written>>
    /\ UNCHANGED <<unit, retryVars, normVars>>

\* the loop takes the next domain and calls fetch_domain_data(domain, settings)
ProcessDomain ==
    /\ mpc = "loop"
    /\ idx < Len(domains)
    /\ idx' = idx + 1
    /\ log' = Append(log, LogLine("info", "processing", domains[idx + 1]))
    /\ WrapperEnter
    /\ mpc' = "fetch"
    /\ UNCHANGED <<settings, domains, results, outcome, written>>
    /\ UNCHANGED <<unit, normVars>>

\* the data source returns a payload to the wrapper
FetchReturns ==
    /\ mpc = "fetch"
    /\ \E payload \in generate_domain_payload(domains[idx]) : WrapperReturn(payload)
    /\ UNCHANGED <<unit, mainVars, normVars>>

\* the data source raises inside the wrapper
FetchRaises ==
    /\ mpc = "fetch"
    /\ WrapperExcept
    /\ UNCHANGED <<unit, mainVars, normVars>>

\* record = build_record(payload); results.append(record), or the except clause
BuildRecord ==
    /\ mpc = "fetch"
    /\ wst = "returned"
    /\ LET r == build_record(result.val)
       IN  IF r.ok
           THEN /\ results' = Append(results, r.val)
                /\ outcome' = Append(outcome, "ok")
                /\ mpc' = "loop"
                /\ UNCHANGED log
           ELSE /\ log' = Append(log, LogLine("exception", "failed", domains[idx]))
                /\ outcome' = Append(outcome, "build_failed")
                /\ mpc' = HandlerNextPc
                /\ UNCHANGED results
    /\ UNCHANGED <<settings, domains, idx, written>>
    /\ UNCHANGED <<unit, retryVars, normVars>>

\* the wrapper re-raised: the except clause of the loop body
FetchFailed ==
    /\ mpc = "fetch"
    /\ wst = "raised"
    /\ log' = Append(log, LogLine("exception", "failed", domains[idx]))
    /\ outcome' = Append(outcome, "fetch_failed")
    /\ mpc' = HandlerNextPc
    /\ UNCHANGED <<settings, domains, idx, results, written>>
    /\ UNCHANGED <<unit, retryVars, normVars>>

\* the loop is exhausted
LoopDone ==
    /\ mpc = "loop"
    /\ idx = Len(domains)
    /\ mpc' = "save"
    /\ UNCHANGED <<settings, domains, idx, results, outcome, log, written>>
    /\ UNCHANGED <<unit, retryVars, normVars>>

\* save_output(results, output_file): the write succeeds or raises OSError
SaveOutput ==
    /\ mpc = "save"
    /\ \E writable \in BOOLEAN :
         IF writable
         THEN /\ written' = [exists |-> TRUE, data |-> results]
              /\ log' = Append(log, LogLine("info", "wrote", <<>>))
              /\ mpc' = "exit0"
         ELSE /\ mpc' = "raised"
              /\ UNCHANGED <<written, log>>
    /\ UNCHANGED <<settings, domains, idx, results, outcome>>
    /\ UNCHANGED <<unit, retryVars, normVars>>

Next ==
    \/ LoadSettings
    \/ LoadDomains
    \/ ProcessDomain
    \/ FetchReturns
    \/ FetchRaises
    \/ BuildRecord
    \/ FetchFailed
    \/ LoopDone
    \/ SaveOutput

Spec == Init /\ [][Next]_vars

(***************************************************************************)
(* The retry wrapper on its own: a function decorated with                 *)
(* retry(retries=n, backoff_in_seconds=b) is called, and each invocation   *)
(* of the function returns or raises.                                      *)
(***************************************************************************)
InitRetry ==
    /\ unit = "retry"
    /\ rRetries \in 0..MaxRetries
    /\ rBackoff \in 1..MaxBackoff
    /\ wst = "idle" /\ attempt = 0 /\ delay = 0 /\ trace = <<>>
    /\ result = NoResult /\ raisedErr = NoError /\ ncalls = 0
    /\ mpc = "idle"
    /\ settings = NoSettings
    /\ domains = <<>> /\ idx = 0 /\ results = <<>> /\ outcome = <<>>
    /\ log = <<>> /\ written = NoFile
    /\ npc = "idle" /\ raw = 0 /\ out = NoOut /\ out2 = NoOut

\* the caller calls the wrapped function
RetryCall ==
    /\ unit = "retry"
    /\ wst # "calling"
    /\ ncalls < MaxWrapperCalls
    /\ WrapperEnter
    /\ UNCHANGED <<unit, mainVars, normVars>>

\* this invocation of the function returns (its value names the invocation)
RetryFuncReturns ==
    /\ unit = "retry"
    /\ WrapperReturn(Calls(trace) + 1)
    /\ UNCHANGED <<unit, mainVars, normVars>>

\* this invocation of the function raises
RetryFuncRaises ==
    /\ unit = "retry"
    /\ WrapperExcept
    /\ UNCHANGED <<unit, mainVars, normVars>>

NextRetry == RetryCall \/ RetryFuncReturns \/ RetryFuncRaises

SpecRetry == InitRetry /\ [][NextRetry]_vars

(***************************************************************************)
(* The normalizers on their own: a raw input is drawn, the normalizer is   *)
(* applied to it, and then applied again to its own output.                *)
(***************************************************************************)
Letters == <<"a", "b", "c", "d", "e", "f", "g", "h", "i", "j", "k", "l", "m", "n", "o", "p">>

\* the i-th well-formed competitor: distinct domains, three visit counts, two scores
Filler(i) == Competitor(Str(<<Letters[i]>>), Num(i % 3), Num((i % 2) * 500))

Fillers(k) == [i \in 1..k |-> Filler(i)]

\* competitor entries of every shape the parser distinguishes
CompetitorKinds ==
    {NotACompetitor,
     Competitor(Str(<<>>), Num(5), Num(900)),
     Competitor(Str(<<" ", " ">>), Text, Num(900)),
     Competitor(DomAbsent, Num(5), Num(900)),
     Competitor(DomNone, Absent, Absent),
     Competitor(Str(<<" ", "a", ".", "c", "o", "m", " ">>), Num(10), Num(500)),
     Competitor(Str(<<"b", ".", "c", "o", "m">>), None, None),
     Competitor(Str(<<"c", ".", "c", "o", "m">>), Text, Num(500)),
     Competitor(Str(<<"c", ".", "c", "o", "m">>), Num(7), Text),
     Competitor(Str(<<"z", ".", "c", "o", "m">>), Num(3), Num(900))}

CompetitorInputs ==
    {[topSimilarityCompetitors |-> NoList("none")],
     [topSimilarityCompetitors |-> NoList("absent")]}
    \cup {[topSimilarityCompetitors |-> List(head \o Fillers(k))] :
             head \in SeqsUpTo(CompetitorKinds, MaxTail), k \in 0..MaxFill}

\* age buckets of every shape the parser distinguishes (values in thousandths)
BucketKinds ==
    {Bucket(Num(a), Num(a + 6), Num(v)) : a \in {18, 25}, v \in {-1000, 0, 1000, 3000}}
    \cup {NotABucket,
          Bucket(Text, Num(24), Num(1000)),
          Bucket(Num(18), Num(24), Text),
          Bucket(Num(35), Num(44), None)}

GenderFieldKinds == {Num(-1000), Num(0), Num(1000), Num(3000), Text, None}

GenderKinds ==
    {NoGender("none"), NoGender("other")}
    \cup {Gender(m, f) : m \in GenderFieldKinds, f \in GenderFieldKinds}

\* one dominant bucket and four small ones, whose rounded fractions sum to 0.998
SkewedAges ==
    List(<<Bucket(Num(18), Num(24), Num(8984)), Bucket(Num(25), Num(34), Num(254)),
           Bucket(Num(35), Num(44), Num(254)), Bucket(Num(45), Num(54), Num(254)),
           Bucket(Num(55), Num(64), Num(254))>>)

DemographicsInputs ==
    {[ageDistribution |-> NoList("none"), genderDistribution |-> NoGender("none")]}
    \cup {[ageDistribution |-> List(l), genderDistribution |-> Gender(Num(1000), Num(3000))] :
             l \in SeqsUpTo(BucketKinds, MaxBuckets)}
    \cup {[ageDistribution |-> List(<<Bucket(Num(18), Num(24), Num(0)),
                                      Bucket(Num(25), Num(34), Num(0))>>),
           genderDistribution |-> g] : g \in GenderKinds}
    \cup {[ageDistribution |-> SkewedAges, genderDistribution |-> NoGender("none")]}

Date01 == Str(<<"2", "0", "2", "4", "-", "0", "1">>)
Date02 == Str(<<"2", "0", "2", "4", "-", "0", "2">>)
Date03 == Str(<<"2", "0", "2", "4", "-", "0", "3">>)

\* historical points: the dates of the scenario, visits that are positive, negative,
\* null or not numeric, and a null or missing date
PointKinds ==
    {Point(Date01, Num(100)), Point(Date01, Num(150)), Point(Date02, Num(120)),
     Point(Date03, Num(150)), Point(Date03, Num(100)), Point(Date01, Num(-50)),
     Point(Date02, None), Point(Date02, Text),
     Point(DomNone, Num(100)), Point(DomAbsent, Num(120))}

\* the rest of the arguments of parse_traffic
TrafficFrames ==
    {[visitsTotalCount |-> Absent, trafficSources |-> NoMap, ranking |-> NoMap],
     [visitsTotalCount |-> Num(0), trafficSources |-> Map(0), ranking |-> Map(2)],
     [visitsTotalCount |-> Num(7), trafficSources |-> Map(3), ranking |-> NoMap]}

TrafficInput(historical, frame) ==
    [traffic |-> [historical |-> historical, visitsTotalCount |-> frame.visitsTotalCount],
     trafficSources |-> frame.trafficSources,
     ranking |-> frame.ranking]

TrafficInputs ==
    {TrafficInput(NoList(t), f) : t \in {"none", "other"}, f \in TrafficFrames}
    \cup {TrafficInput(List(l), f) : l \in SeqsUpTo(PointKinds, MaxPoints), f \in TrafficFrames}

InitNorm ==
    /\ unit \in {"competitors", "demographics", "traffic"}
    /\ raw \in CASE unit = "competitors" -> CompetitorInputs
                 [] unit = "demographics" -> DemographicsInputs
                 [] unit = "traffic" -> TrafficInputs
    /\ npc = "input" /\ out = NoOut /\ out2 = NoOut
    /\ rRetries = 0 /\ rBackoff = 0
    /\ wst = "idle" /\ attempt = 0 /\ delay = 0 /\ trace = <<>>
    /\ result = NoResult /\ raisedErr = NoError /\ ncalls = 0
    /\ mpc = "idle"
    /\ settings = NoSettings
    /\ domains = <<>> /\ idx = 0 /\ results = <<>> /\ outcome = <<>>
    /\ log = <<>> /\ written = NoFile

\* the normalizer of this run
Normalizer(x) ==
    CASE unit = "competitors" -> parse_competitors(x)
      [] unit = "demographics" -> parse_demographics(x)
      [] unit = "traffic" -> parse_traffic(x.traffic, x.trafficSources, x.ranking)

\* the normalizer is applied to the raw input
Parse ==
    /\ npc = "input"
    /\ out' = Normalizer(raw)
    /\ npc' = "parsed"
    /\ UNCHANGED <<raw, out2>>
    /\ UNCHANGED <<unit, retryVars, mainVars>>

\* the normalizer is applied to the output it returned
Reparse ==
    /\ npc = "parsed"
    /\ out.ok
    /\ out2' = Normalizer(out.val)
    /\ npc' = "reparsed"
    /\ UNCHANGED <<raw, out>>
    /\ UNCHANGED <<unit, retryVars, mainVars>>

NextNorm == Parse \/ Reparse

SpecNorm == InitNorm /\ [][NextNorm]_vars

(***************************************************************************)
(* Properties of the pipeline driver (specification Spec).                 *)
(***************************************************************************)
\* the domains of the first i list entries whose fetch and build succeeded, in list order
RECURSIVE SucceededDomains(_)
SucceededDomains(i) ==
    IF i = 0 THEN <<>>
    ELSE SucceededDomains(i - 1) \o (IF outcome[i] = "ok" THEN <<domains[i]>> ELSE <<>>)

RecordDomains(records) == [i \in 1..Len(records) |-> records[i].domain]

IsProcessing(line) == line.event = "processing"

\* C1: a failed domain never aborts the run.  While the loop runs, results holds one
\* record per domain that succeeded so far, in list order, and none for a failed
\* domain; when the loop has ended every domain of the list has been processed, and
\* the array that save_output writes is exactly that result list.
C1_FailedDomainNeverAborts ==
    /\ mpc \in {"loop", "fetch", "save", "exit0"} =>
          /\ Len(outcome) <= Len(domains)
          /\ RecordDomains(results) = SucceededDomains(Len(outcome))
    /\ mpc \in {"save", "exit0"} =>
          /\ idx = Len(domains)
          /\ Len(outcome) = Len(domains)
          /\ LET processed == SelectSeq(log, IsProcessing)
             IN  [i \in 1..Len(processed) |-> processed[i].domain] = domains
    /\ mpc = "exit0" => written = [exists |-> TRUE, data |-> results]

\* C1 witness: a finished run of three domains in which the first fetch failed after
\* its retries, the second record could not be built, and the third was written
C1_Witness ==
    /\ mpc = "exit0"
    /\ outcome = <<"fetch_failed", "build_failed", "ok">>
    /\ RecordDomains(written.data) = <<(<<"c">>)>>

\* C4 (as claimed): a fetch whose data source always fails invokes it
\* settings.max_retries + 1 times and first sleeps settings.retry_backoff_seconds
C4_FetchRetriedPerSettings ==
    (mpc = "fetch" /\ wst = "raised") =>
        /\ Calls(trace) = settings.max_retries + 1
        /\ Len(trace) >= 2 => trace[2] = SleepEv(settings.retry_backoff_seconds)

\* C5 (as claimed): only a failed domain-list load ends a run abnormally, with exit
\* code 1, after logging and before any fetch; no other failure leaves main()
C5_OnlyDomainLoadTerminates ==
    /\ mpc # "raised"
    /\ mpc = "exit1" =>
          /\ log # <<>>
          /\ log[Len(log)] = LogLine("error", "load_domains_failed", <<>>)
          /\ ncalls = 0

(***************************************************************************)
(* Properties of the retry wrapper (specification SpecRetry).              *)
(***************************************************************************)
IsCall(e) == e.ev = "call"
IsSleep(e) == e.ev = "sleep"

RECURSIVE Pow2(_)
Pow2(k) == IF k = 0 THEN 1 ELSE 2 * Pow2(k - 1)

\* C2: the wrapped function is invoked at most retries + 1 times per call; the first
\* invocation that returns ends the call with its value; retries + 1 failures end it
\* with the exception of the last invocation, and nothing is invoked after that.
C2_AtMostRetriesPlusOne ==
    LET calls == SelectSeq(trace, IsCall)
        n == Len(calls)
    IN  /\ n <= rRetries + 1
        /\ \A i \in 1..(n - 1) : ~calls[i].ok
        /\ wst = "calling" => n <= rRetries /\ \A i \in 1..n : ~calls[i].ok
        /\ wst = "returned" => /\ n >= 1 /\ calls[n].ok
                               /\ result = [call |-> n, val |-> n]
        /\ wst = "raised" => /\ n = rRetries + 1
                             /\ ~calls[n].ok
                             /\ raisedErr = [call |-> rRetries + 1]

\* C2 witness: a call that gave up after retries + 1 failures, with retries >= 2
C2_Witness ==
    /\ wst = "raised"
    /\ rRetries >= 2
    /\ Calls(trace) = rRetries + 1

\* C3: the effects of a call alternate invocation, sleep, invocation, ...: a sleep
\* follows every failed invocation but the last one allowed, nothing precedes the first
\* invocation or follows a success or the final failure, and the k-th sleep lasts
\* backoff * 2^(k-1).
C3_SleepsDoubleBetweenAttempts ==
    LET sleeps == SelectSeq(trace, IsSleep)
    IN  /\ \A i \in 1..Len(trace) :
              IF i % 2 = 1 THEN trace[i].ev = "call"
              ELSE trace[i].ev = "sleep" /\ ~trace[i - 1].ok
        /\ wst = "calling" => Len(trace) % 2 = 0
        /\ wst \in {"returned", "raised"} => Len(trace) % 2 = 1
        /\ \A k \in 1..Len(sleeps) : sleeps[k].d = rBackoff * Pow2(k - 1)

\* C3 witness: a call that slept three times and then returned
C3_Witness ==
    /\ wst = "returned"
    /\ Len(SelectSeq(trace, IsSleep)) = 3

(***************************************************************************)
(* Properties of the normalizers (specification SpecNorm).                 *)
(***************************************************************************)
Min(a, b) == IF a < b THEN a ELSE b

Abs(x) == IF x < 0 THEN -x ELSE x

\* the number held by a cleaned field
Val(field) == IF field.t = "num" THEN field.v ELSE 0

\* the raw competitor entries that are mappings with a domain that is not blank
ValidCompetitors(items) ==
    {i \in 1..Len(items) :
        items[i].isMap /\ Strip(StrOf(Get(items[i].domain, Str(<<>>)))) # <<>>}

\* the raw competitor entries that are well formed in every field
WellFormedCompetitors(items) ==
    {i \in ValidCompetitors(items) :
        /\ items[i].visitsTotalCount.t # "text"
        /\ items[i].similarityScore.t # "text"}

\* C6 (as claimed): parse_demographics and parse_competitors return normally on
\* every input, and a malformed competitor costs only itself: every well-formed
\* entry of the payload is still counted
C6_ItemErrorsNeverPropagate ==
    (npc # "input" /\ unit \in {"competitors", "demographics"}) =>
        /\ out.ok
        /\ unit = "competitors" =>
              out.val.competitorsCount >=
                  Cardinality(WellFormedCompetitors(
                      ListOrEmpty(raw.topSimilarityCompetitors)))

\* key(a) >= key(b) for the pair (similarityScore, visitsTotalCount)
RanksAtLeast(a, b) ==
    \/ a.similarityScore.v > b.similarityScore.v
    \/ /\ a.similarityScore.v = b.similarityScore.v
       /\ a.visitsTotalCount.v >= b.visitsTotalCount.v

\* C8: whenever parse_competitors returns, competitorsCount is the number of raw
\* entries with a domain that is not blank, the top list has min(10, competitorsCount)
\* entries, none with a blank domain, sorted descending by (similarityScore,
\* visitsTotalCount), and no cleaned entry left out ranks strictly above one in it.
C8_TopCompetitors ==
    (unit = "competitors" /\ npc # "input" /\ out.ok) =>
        LET items == ListOrEmpty(raw.topSimilarityCompetitors)
            valid == ValidCompetitors(items)
            top == out.val.topSimilarityCompetitors.items
            count == out.val.competitorsCount
        IN  /\ count = Cardinality(valid)
            /\ Len(top) = Min(10, count)
            /\ \A j \in 1..Len(top) :
                  /\ Strip(top[j].domain.s) = top[j].domain.s
                  /\ top[j].domain.s # <<>>
                  /\ \E i \in valid : CleanCompetitor(items[i]).val = top[j]
            /\ \A j \in 1..(Len(top) - 1) : RanksAtLeast(top[j], top[j + 1])
            /\ \A i \in valid :
                  LET c == CleanCompetitor(items[i]).val
                  IN  \/ \E j \in 1..Len(top) : top[j] = c
                      \/ \A j \in 1..Len(top) : RanksAtLeast(top[j], c)

\* C8 witness: a list with dropped entries and more than ten cleaned ones was parsed
C8_Witness ==
    /\ unit = "competitors" /\ npc = "parsed" /\ out.ok
    /\ out.val.competitorsCount > 10
    /\ Len(raw.topSimilarityCompetitors.items) > out.val.competitorsCount
    /\ Len(out.val.topSimilarityCompetitors.items) = 10

\* two bucket lists with the same keys whose values differ by at most `by` thousandths
AgesWithin(a, b, by) ==
    /\ Len(a) = Len(b)
    /\ \A i \in 1..Len(a) :
          /\ a[i].minAge = b[i].minAge /\ a[i].maxAge = b[i].maxAge
          /\ Abs(a[i].value.v - b[i].value.v) <= by

GenderWithin(a, b, by) ==
    /\ Abs(a.male.v - b.male.v) <= by
    /\ Abs(a.female.v - b.female.v) <= by

AgeSum(ages) == SumSeq([i \in 1..Len(ages) |-> ages[i].value.v])

\* C7 (as claimed): every normalizer applied to its own output returns that output,
\* up to one unit in the last rounded decimal place
C7_Idempotent ==
    npc = "reparsed" =>
        /\ out2.ok
        /\ unit = "competitors" => out2.val = out.val
        /\ unit = "demographics" =>
              /\ AgesWithin(out2.val.ageDistribution.items, out.val.ageDistribution.items, 1)
              /\ GenderWithin(out2.val.genderDistribution, out.val.genderDistribution, 1)
        /\ unit = "traffic" =>
              /\ out2.val.traffic.historical = out.val.traffic.historical
              /\ out2.val.traffic.visitsTotalCount = out.val.traffic.visitsTotalCount
              /\ Abs(out2.val.traffic.averageMonthlyVisits.v
                     - out.val.traffic.averageMonthlyVisits.v) <= 1
              /\ Abs(out2.val.traffic.visitsGrowthRate.v
                     - out.val.traffic.visitsGrowthRate.v) <= 1
              /\ out2.val.trafficSources = out.val.trafficSources
              /\ out2.val.ranking = out.val.ranking

\* C7 (amended): applied to its own output, parse_competitors returns the same top
\* list and the count min(10, competitorsCount), hence the same output exactly when
\* at most ten competitors were valid; parse_traffic returns its output unchanged;
\* parse_demographics returns the same buckets in the same order, with the same
\* values whenever the rounded values sum to exactly 1.000, and the same gender
\* split whenever male + female is exactly 1.000.
C7_IdempotentAmended ==
    npc = "reparsed" =>
        /\ out2.ok
        /\ unit = "competitors" =>
              /\ out2.val.topSimilarityCompetitors = out.val.topSimilarityCompetitors
              /\ out2.val.competitorsCount = Min(10, out.val.competitorsCount)
              /\ out.val.competitorsCount <= 10 => out2.val = out.val
        /\ unit = "demographics" =>
              LET a == out.val.ageDistribution.items
                  b == out2.val.ageDistribution.items
                  g == out.val.genderDistribution
              IN  /\ Len(a) = Len(b)
                  /\ \A i \in 1..Len(a) :
                        a[i].minAge = b[i].minAge /\ a[i].maxAge = b[i].maxAge
                  /\ AgeSum(a) = 1000 => b = a
                  /\ g.male.v + g.female.v = 1000 => out2.val.genderDistribution = g
        /\ unit = "traffic" => out2.val = out.val

\* C7 witness: the output for more than ten valid competitors was parsed again
C7_Witness ==
    /\ npc = "reparsed" /\ unit = "competitors"
    /\ out.val.competitorsCount > 10
    /\ out2.val.competitorsCount = 10

\* C9 (as claimed): for numeric inputs of any sign every age value and both gender
\* values are non-negative; surviving age values sum to 1.0 within 0.001 per bucket
\* and are all the rounded 1/N when no bucket was positive; male + female is 1.0
\* within rounding, and is 0.5/0.5 when both inputs are non-positive
C9_DemographicFractions ==
    (unit = "demographics" /\ npc # "input") =>
        LET ages == out.val.ageDistribution.items
            g == out.val.genderDistribution
            rawAges == CleanBuckets(ListOrEmpty(raw.ageDistribution))
            mf == GenderValues(raw.genderDistribution)
        IN  /\ \A i \in 1..Len(ages) : ages[i].value.v >= 0
            /\ g.male.v >= 0 /\ g.female.v >= 0
            /\ Len(ages) > 0 => Abs(AgeSum(ages) - 1000) <= Len(ages)
            /\ (\A i \in 1..Len(rawAges) : rawAges[i].value.v <= 0) =>
                  \A i \in 1..Len(ages) : ages[i].value.v = Round3(<<1, Len(ages)>>)
            /\ Abs(g.male.v + g.female.v - 1000) <= 2
            /\ (mf[1] <= 0 /\ mf[2] <= 0) => g.male.v = 500 /\ g.female.v = 500

\* the number of occurrences of p in a list
Count(list, p) == Cardinality({i \in 1..Len(list) : list[i] = p})

ComparableDates(historical) ==
    \A i \in 1..Len(historical) : historical[i].date.t # "none"

\* C10: for points with comparable dates, in any input order, the output historical
\* is the input sorted ascending by date, and visitsGrowthRate is 0 for fewer than two
\* points or a first visits <= 0, else (last - first) / first rounded to 3 decimals,
\* first and last being the earliest- and latest-dated points; the points
\* 2024-01:100, 2024-03:150, 2024-02:120 give 0.5.
C10_GrowthOverSortedHistory ==
    (unit = "traffic" /\ npc # "input" /\ out.ok
        /\ ComparableDates(ListOrEmpty(raw.traffic.historical))) =>
        LET h == ListOrEmpty(raw.traffic.historical)
            s == out.val.traffic.historical.items
            g == out.val.traffic.visitsGrowthRate.v
            n == Len(s)
            first == Val(s[1].visits)
            last == Val(s[n].visits)
        IN  /\ n = Len(h)
            /\ \A i \in 1..n : Count(s, h[i]) = Count(h, h[i])
            /\ \A i \in 1..n : \A j \in i..n : ~StrLess(DateKey(s[j]).s, DateKey(s[i]).s)
            /\ n >= 1 => \A i \in 1..n :
                  /\ ~StrLess(DateKey(h[i]).s, DateKey(s[1]).s)
                  /\ ~StrLess(DateKey(s[n]).s, DateKey(h[i]).s)
            /\ IF n < 2 \/ first <= 0 THEN g = 0
               ELSE /\ 2 * Abs(1000 * (last - first) - g * first) <= first
                    /\ g = RoundHalfEven(1000 * (last - first), first)
            /\ h = <<Point(Date01, Num(100)), Point(Date03, Num(150)), Point(Date02, Num(120))>>
                  => g = 500

\* C10 witness: the scenario of three points out of date order was parsed
C10_Witness ==
    /\ unit = "traffic" /\ npc = "parsed" /\ out.ok
    /\ raw.traffic.historical.items =
          <<Point(Date01, Num(100)), Point(Date03, Num(150)), Point(Date02, Num(120))>>
    /\ out.val.traffic.visitsGrowthRate.v = 500

====
